---- MODULE Spec2Model ----
(***************************************************************************)
(* LinguaWeaver server: the videos and translations tables and the RPC     *)
(* handlers that write them (uploadVideo, createTranslation,               *)
(* updateTranslationProgress).  Every handler is an async function; each   *)
(* `await db...execute()` is one storage statement, so a handler with      *)
(* several statements is several steps and requests of different workers   *)
(* interleave between them.                                                *)
(***************************************************************************)
EXTENDS Integers, FiniteSets, Sequences, TLC

VARIABLES videos, translations, videoIdSeq, translationIdSeq,
          now, pc, req, returned, budget,
          selectedVideo, targetLanguage, videoTranslations,
          isLoadingTranslations, error, calls

\* the state of the client's VideoList component and its calls in flight
clientVars == <<selectedVideo, targetLanguage, videoTranslations,
                isLoadingTranslations, error, calls>>

vars == <<videos, translations, videoIdSeq, translationIdSeq,
          now, pc, req, returned, budget, clientVars>>

(* ------------------------------ bounds --------------------------------- *)
MaxVideos == 2
MaxTranslations == 2
MaxTime == 1
MaxRequests == 4
MaxUpdates == 2
MaxCalls == 3

\* the workers that serve requests concurrently
Procs == {1, 2}

(* ------------------------------ values --------------------------------- *)
\* SQL NULL / JS null; a non-null value v of a nullable column is <<v>>.
Null == <<>>
Some(v) == <<v>>

supportedLanguagesEnum ==
  <<"en", "es", "fr", "de", "it", "pt", "ru", "ja", "ko", "zh", "ar", "hi">>

translationStatusEnum == {"pending", "processing", "completed", "failed"}

SupportedLanguages == {supportedLanguagesEnum[i] : i \in 1..Len(supportedLanguagesEnum)}

\* the target languages requests are drawn from (those of the handler's test
\* 'should allow creating translations for different target languages')
TargetLanguages == {"es", "fr"}

\* video ids requests are drawn from: every id the table can hold and one more
VideoIds == 1..(MaxVideos + 1)
TranslationIds == 1..(MaxTranslations + 1)

Empty == [f \in {} |-> 0]

(* --------------------------- input schemas ----------------------------- *)
testVideoInput ==
  [filename |-> "test-video.mp4", original_filename |-> "original-test-video.mp4",
   file_path |-> "/uploads/test-video.mp4", file_size |-> 1024000,
   duration |-> Some(120), mime_type |-> "video/mp4",
   original_language |-> Some("en")]

\* the inputs uploadVideo is called with: the test input, the same with the
\* nullable fields null, and inputs breaking one constraint each
UploadInputs ==
  { testVideoInput,
    [testVideoInput EXCEPT !.duration = Null, !.original_language = Null],
    [testVideoInput EXCEPT !.file_size = 0],
    [testVideoInput EXCEPT !.duration = Some(0)],
    [testVideoInput EXCEPT !.original_language = Some("xx")] }

\* a valid input whose duration has more significant bits than a 4-byte float
longVideoInput ==
  [testVideoInput EXCEPT !.filename = "long-video.mp4", !.duration = Some(16777217)]

\* mutant: original_language is any string
uploadVideoInputSchemaAnyLanguage(input) ==
  /\ input.file_size > 0
  /\ input.duration # Null => input.duration[1] > 0

uploadVideoInputSchema(input) ==
  /\ input.file_size > 0
  /\ input.duration # Null => input.duration[1] > 0
  /\ input.original_language # Null => input.original_language[1] \in SupportedLanguages

createTranslationInputSchema(input) ==
  /\ input.video_id \in Int
  /\ input.target_language \in SupportedLanguages

CreateInputs == [video_id : VideoIds, target_language : TargetLanguages]

\* the values an update may carry, per field
ProgressValues == {50, 100}
\* values outside the range the schema admits
OutOfRangeProgress == {-1, 101}
TextValues == {Null, Some("text")}
DateValues == {Null, Some(1)}

OptField(f, Vals) == {Empty} \cup {[g \in {f} |-> v] : v \in Vals}

OptionalFields ==
  {"status", "progress_percentage", "translated_audio_path", "transcript_original",
   "transcript_translated", "error_message", "started_at", "completed_at"}

NullableFields ==
  {"translated_audio_path", "transcript_original", "transcript_translated",
   "error_message", "started_at", "completed_at"}

\* the field sets of the update inputs: an omitted field is not in the
\* record's domain (input.f === undefined)
Provided(input) == DOMAIN input \ {"translation_id"}

\* the inputs that provide at most one optional field
SingleFieldInputs ==
  UNION { OptField("status", translationStatusEnum),
          OptField("progress_percentage", ProgressValues \cup OutOfRangeProgress),
          OptField("translated_audio_path", TextValues),
          OptField("transcript_original", TextValues),
          OptField("transcript_translated", TextValues),
          OptField("error_message", TextValues),
          OptField("started_at", DateValues),
          OptField("completed_at", DateValues) }

\* the multi-field input of the handler's test 'should update multiple
\* fields at once'
TestInputs ==
  { [status |-> "processing", progress_percentage |-> 50, started_at |-> Some(1),
     transcript_original |-> Some("text"), transcript_translated |-> Some("text")] }

UpdateInputs ==
  { [translation_id |-> id] @@ fields :
      id \in TranslationIds, fields \in SingleFieldInputs \cup TestInputs }

\* the inputs that provide nothing or the status only
StatusInputs == {i \in UpdateInputs : Provided(i) \subseteq {"status"}}

\* mutant: progress_percentage is any number
updateTranslationProgressInputSchemaNoRange(input) ==
  /\ input.translation_id \in Int
  /\ "status" \in DOMAIN input => input.status \in translationStatusEnum
  /\ "progress_percentage" \in DOMAIN input => input.progress_percentage \in Int

\* z.object({...}): progress_percentage is z.number().int().min(0).max(100)
updateTranslationProgressInputSchema(input) ==
  /\ input.translation_id \in Int
  /\ "status" \in DOMAIN input => input.status \in translationStatusEnum
  /\ "progress_percentage" \in DOMAIN input =>
        input.progress_percentage \in 0..100

(* ------------------------------ responses ------------------------------ *)
\* `returned` is what the step just taken handed back to its caller: the
\* worker, the request and the result; NoResponse after a step that returns
\* nothing
NoResponse == [tag |-> "none"]
Return(p, request, result) == [proc |-> p, request |-> request] @@ result
Ok(v) == [tag |-> "ok", value |-> v]
NullResult == [tag |-> "null"]
\* new Error(`Video with ID ${id} not found`)
VideoNotFoundError(id) == [tag |-> "error", error |-> "Video with ID not found", video_id |-> id]
\* new Error(`Translation to ${lang} already exists for video ${id}`)
DuplicateError(lang, id) ==
  [tag |-> "error", error |-> "Translation already exists for video",
   target_language |-> lang, video_id |-> id]
ValidationError == [tag |-> "error", error |-> "validation"]
\* an error raised by the storage layer (constraint violation)
StorageError == [tag |-> "error", error |-> "storage"]

NoRequest == [op |-> "none"]

(* ------------------------------- storage ------------------------------- *)
\* mutant: the lookup without its where clause
SelectVideoNoWhere(id) == videos

\* db.select().from(videosTable).where(eq(videosTable.id, id))
SelectVideoById(id) == {v \in videos : v.id = id}

\* mutant: the duplicate lookup sees only the translations still pending
SelectPendingByVideoAndLanguage(video_id, lang) ==
  {t \in translations : t.video_id = video_id /\ t.target_language = lang
                         /\ t.status = "pending"}

\* db.select().from(translationsTable).where(and(eq(video_id), eq(target_language)))
SelectTranslationsByVideoAndLanguage(video_id, lang) ==
  {t \in translations : t.video_id = video_id /\ t.target_language = lang}

\* the number a real column (4-byte float, 24-bit significand) holds for the
\* whole number x, 0 <= x < 2^25: the nearest representable one, ties to even
real(x) ==
  IF x <= 16777216 THEN x
  ELSE LET lo == (x \div 2) * 2
       IN IF x = lo THEN x
          ELSE IF (lo \div 2) % 2 = 0 THEN lo ELSE lo + 2

\* mutant: updated_at has a constant default
NewVideoRowConstantUpdatedAt(id, input, ts) ==
  [id |-> id, filename |-> input.filename,
   original_filename |-> input.original_filename, file_path |-> input.file_path,
   file_size |-> input.file_size,
   duration |-> IF input.duration = Null THEN Null ELSE Some(real(input.duration[1])),
   mime_type |-> input.mime_type, original_language |-> input.original_language,
   uploaded_at |-> ts, updated_at |-> 0]

\* mutant: every insert gets the id 1
NewVideoRowFirstId(id, input, ts) ==
  [id |-> 1, filename |-> input.filename,
   original_filename |-> input.original_filename, file_path |-> input.file_path,
   file_size |-> input.file_size,
   duration |-> IF input.duration = Null THEN Null ELSE Some(real(input.duration[1])),
   mime_type |-> input.mime_type, original_language |-> input.original_language,
   uploaded_at |-> ts, updated_at |-> ts]

\* the row the videos table stores for an insert executed at time ts; file
\* sizes are within the integer column's range
NewVideoRow(id, input, ts) ==
  [id |-> id,
   filename |-> input.filename,
   original_filename |-> input.original_filename,
   file_path |-> input.file_path,
   file_size |-> input.file_size,
   duration |-> IF input.duration = Null THEN Null ELSE Some(real(input.duration[1])),
   mime_type |-> input.mime_type,
   original_language |-> input.original_language,
   uploaded_at |-> ts,
   updated_at |-> ts]

\* mutant: the insert stamps started_at
NewTranslationRowStarted(id, input, ts) ==
  [id |-> id, video_id |-> input.video_id, target_language |-> input.target_language,
   status |-> "pending", progress_percentage |-> 0, translated_audio_path |-> Null,
   transcript_original |-> Null, transcript_translated |-> Null,
   error_message |-> Null, started_at |-> Some(ts), completed_at |-> Null,
   created_at |-> ts, updated_at |-> ts]

\* the row createTranslation inserts; created_at and updated_at take the
\* column default now()
NewTranslationRow(id, input, ts) ==
  [id |-> id,
   video_id |-> input.video_id,
   target_language |-> input.target_language,
   status |-> "pending",
   progress_percentage |-> 0,
   translated_audio_path |-> Null,
   transcript_original |-> Null,
   transcript_translated |-> Null,
   error_message |-> Null,
   started_at |-> Null,
   completed_at |-> Null,
   created_at |-> ts,
   updated_at |-> ts]

\* the VideoList component as mounted (its useState initial values), no call
\* sent
InitVideoList ==
  /\ selectedVideo = Null
  /\ targetLanguage = ""
  /\ videoTranslations = <<>>
  /\ isLoadingTranslations = FALSE
  /\ error = Null
  /\ calls = {}

Init ==
  /\ videos = {}
  /\ translations = {}
  /\ videoIdSeq = 0
  /\ translationIdSeq = 0
  /\ now = 0
  /\ pc = [p \in Procs |-> "idle"]
  /\ req = [p \in Procs |-> NoRequest]
  /\ returned = NoResponse
  /\ budget = MaxRequests
  /\ InitVideoList

\* a request is taken by the first worker that is not serving one
Free(p) ==
  /\ pc[p] = "idle"
  /\ \A q \in Procs : q < p => pc[q] # "idle"

\* the instants some row or some pending update has been stamped with
Stamped ==
  {v.uploaded_at : v \in videos}
    \cup {t.created_at : t \in translations}
    \cup {t.updated_at : t \in translations}
    \cup {req[p].updateData.updated_at : p \in {q \in Procs : pc[q] = "update"}}

\* the clock advances between any two steps, or not at all; only the order of
\* the readings matters, so an instant nothing was stamped with is skipped
Tick ==
  /\ now < MaxTime
  /\ now \in Stamped
  /\ now' = now + 1
  /\ returned' = NoResponse
  /\ UNCHANGED <<videos, translations, videoIdSeq, translationIdSeq, pc, req,
                 budget>>
  /\ UNCHANGED clientVars

(* ------------------------------ uploadVideo ---------------------------- *)
\* the procedure parses the input with uploadVideoInputSchema, then the
\* handler runs its single INSERT ... RETURNING
uploadVideo(p, input) ==
  /\ Free(p)
  /\ videoIdSeq < MaxVideos
  /\ budget > 0
  /\ budget' = budget - 1
  /\ LET request == [op |-> "uploadVideo", input |-> input] IN
     IF uploadVideoInputSchema(input)
       THEN LET row == NewVideoRow(videoIdSeq + 1, input, now) IN
            /\ videos' = videos \cup {row}
            /\ videoIdSeq' = videoIdSeq + 1
            /\ returned' = Return(p, request, Ok(row))
       ELSE /\ returned' = Return(p, request, ValidationError)
            /\ UNCHANGED <<videos, videoIdSeq>>
  /\ UNCHANGED <<translations, translationIdSeq, now, pc, req>>
  /\ UNCHANGED clientVars

(* --------------------------- createTranslation ------------------------- *)
\* number of createTranslation requests that have not reached their insert
CreatesInFlight ==
  Cardinality({q \in Procs : pc[q] \in {"select_existing", "insert"}})

\* mutant: the handler skips the video lookup's length check
createTranslation_noVideoCheck(p, input) ==
  /\ Free(p)
  /\ createTranslationInputSchema(input)
  /\ input.video_id <= videoIdSeq + 1
  /\ translationIdSeq + CreatesInFlight < MaxTranslations
  /\ budget > 0
  /\ budget' = budget - 1
  /\ pc' = [pc EXCEPT ![p] = "select_existing"]
  /\ req' = [req EXCEPT ![p] = [op |-> "createTranslation", input |-> input]]
  /\ returned' = NoResponse
  /\ UNCHANGED <<videos, translations, videoIdSeq, translationIdSeq, now>>
  /\ UNCHANGED clientVars

\* 1. Verify that the video exists (first statement of the handler)
createTranslation_selectVideo(p, input) ==
  /\ Free(p)
  /\ createTranslationInputSchema(input)
  /\ input.video_id <= videoIdSeq + 1
  /\ translationIdSeq + CreatesInFlight < MaxTranslations
  /\ budget > 0
  /\ budget' = budget - 1
  /\ LET request == [op |-> "createTranslation", input |-> input]
         video == SelectVideoById(input.video_id)
     IN
     IF Cardinality(video) = 0
       THEN /\ returned' = Return(p, request, VideoNotFoundError(input.video_id))
            /\ UNCHANGED <<pc, req>>
       ELSE /\ pc' = [pc EXCEPT ![p] = "select_existing"]
            /\ req' = [req EXCEPT ![p] = request]
            /\ returned' = NoResponse
  /\ UNCHANGED <<videos, translations, videoIdSeq, translationIdSeq, now>>
  /\ UNCHANGED clientVars

\* 2. Check if a translation for this language already exists for this video
createTranslation_selectExisting(p) ==
  /\ pc[p] = "select_existing"
  /\ LET input == req[p].input
         existingTranslation ==
           SelectTranslationsByVideoAndLanguage(input.video_id, input.target_language)
     IN
     IF Cardinality(existingTranslation) > 0
       THEN /\ pc' = [pc EXCEPT ![p] = "idle"]
            /\ req' = [req EXCEPT ![p] = NoRequest]
            /\ returned' = Return(p, req[p],
                             DuplicateError(input.target_language, input.video_id))
       ELSE /\ pc' = [pc EXCEPT ![p] = "insert"]
            /\ returned' = NoResponse
            /\ UNCHANGED req
  /\ UNCHANGED <<videos, translations, videoIdSeq, translationIdSeq, now,
                 budget>>
  /\ UNCHANGED clientVars

\* the constraints the translations table declares: primary key (id) and the
\* foreign key video_id -> videos.id; no unique constraint on
\* (video_id, target_language) is declared
translationsTable(row) ==
  /\ \A t \in translations : t.id # row.id
  /\ SelectVideoById(row.video_id) # {}

\* mutant: the insert replaces the translations the video already has
createTranslation_insertReplacing(p) ==
  /\ pc[p] = "insert"
  /\ LET row == NewTranslationRow(translationIdSeq + 1, req[p].input, now) IN
     /\ translationIdSeq' = translationIdSeq + 1
     /\ translations' = {t \in translations : t.video_id # row.video_id} \cup {row}
     /\ returned' = Return(p, req[p], Ok(row))
  /\ pc' = [pc EXCEPT ![p] = "idle"]
  /\ req' = [req EXCEPT ![p] = NoRequest]
  /\ UNCHANGED <<videos, videoIdSeq, now, budget>>
  /\ UNCHANGED clientVars

\* 3. Insert a new translation record with 'pending' status; 4. return it
createTranslation_insert(p) ==
  /\ pc[p] = "insert"
  /\ LET row == NewTranslationRow(translationIdSeq + 1, req[p].input, now) IN
     /\ translationIdSeq' = translationIdSeq + 1
     /\ IF translationsTable(row)
          THEN /\ translations' = translations \cup {row}
               /\ returned' = Return(p, req[p], Ok(row))
          ELSE /\ returned' = Return(p, req[p], StorageError)
               /\ UNCHANGED translations
  /\ pc' = [pc EXCEPT ![p] = "idle"]
  /\ req' = [req EXCEPT ![p] = NoRequest]
  /\ UNCHANGED <<videos, videoIdSeq, now, budget>>
  /\ UNCHANGED clientVars

(* ----------------------- updateTranslationProgress --------------------- *)
CopyIfProvided(input, f) ==
  IF f \in DOMAIN input THEN [g \in {f} |-> input[g]] ELSE Empty

ProvidedFields(input) == [f \in Provided(input) |-> input[f]]

\* mutant: error_message is written as null when the input omits it
BuildUpdateDataErrorDefault(input, date) ==
  [updated_at |-> date] @@ ProvidedFields(input) @@ [error_message |-> Null]

\* mutant: the nullable fields are copied only when truthy (if (input.f))
BuildUpdateDataTruthy(input, date) ==
  [updated_at |-> date]
    @@ [f \in {g \in Provided(input) : g \in NullableFields => input[g] # Null}
          |-> input[f]]

\* mutant: the timestamp is taken once, when the module is loaded
BuildUpdateDataStale(input, date) ==
  [updated_at |-> 0] @@ ProvidedFields(input)

\* Build update object with only the fields that are provided
BuildUpdateData(input, date) ==
  [updated_at |-> date]
    @@ CopyIfProvided(input, "status")
    @@ CopyIfProvided(input, "progress_percentage")
    @@ CopyIfProvided(input, "translated_audio_path")
    @@ CopyIfProvided(input, "transcript_original")
    @@ CopyIfProvided(input, "transcript_translated")
    @@ CopyIfProvided(input, "error_message")
    @@ CopyIfProvided(input, "started_at")
    @@ CopyIfProvided(input, "completed_at")

\* mutant: the statement writes the whole row, the columns that are not in data
\* with the values a new row has
SetColumnsWholeRow(row, data) ==
  [c \in DOMAIN row |->
     IF c \in DOMAIN data THEN data[c]
     ELSE IF c = "status" THEN "pending"
     ELSE IF c = "progress_percentage" THEN 0
     ELSE IF c \in NullableFields THEN Null
     ELSE row[c]]

\* UPDATE ... SET <data>: the columns named in data take the new value, every
\* other column keeps its value
SetColumns(row, data) ==
  [c \in DOMAIN row |-> IF c \in DOMAIN data THEN data[c] ELSE row[c]]

\* mutant: the UPDATE without its where clause
UpdateTranslationsNoWhere(id, data) ==
  {SetColumns(t, data) : t \in translations}

\* mutant: the statement keeps only the row it updates
UpdateTranslationsOnlyRow(id, data) ==
  {SetColumns(t, data) : t \in {u \in translations : u.id = id}}

\* mutant: a Translation in a terminal status is not written
UpdateTranslationsGuarded(id, data) ==
  {IF t.id = id /\ t.status \notin {"completed", "failed"}
     THEN SetColumns(t, data) ELSE t : t \in translations}

\* db.update(translationsTable).set(data).where(eq(translationsTable.id, id))
UpdateTranslations(id, data) ==
  {IF t.id = id THEN SetColumns(t, data) ELSE t : t \in translations}

\* .returning(): the rows the statement updated, as stored after it
Returning(id, data) ==
  {SetColumns(t, data) : t \in {u \in translations : u.id = id}}

\* the procedure parses the input with updateTranslationProgressInputSchema;
\* then the synchronous part of the handler: updateData is built, new Date()
\* is read, and the UPDATE statement is issued
updateTranslationProgress_build(p, input) ==
  /\ Free(p)
  /\ input.translation_id <= translationIdSeq + 1
  /\ budget > 0
  /\ budget' = budget - 1
  /\ IF updateTranslationProgressInputSchema(input)
       THEN /\ req' = [req EXCEPT ![p] =
                        [op |-> "updateTranslationProgress", input |-> input,
                         updateData |-> BuildUpdateData(input, now)]]
            /\ pc' = [pc EXCEPT ![p] = "update"]
            /\ returned' = NoResponse
       ELSE /\ returned' = Return(p, [op |-> "updateTranslationProgress",
                                      input |-> input], ValidationError)
            /\ UNCHANGED <<pc, req>>
  /\ UNCHANGED <<videos, translations, videoIdSeq, translationIdSeq, now>>
  /\ UNCHANGED clientVars

\* the UPDATE statement executes; null if no record was found and updated
updateTranslationProgress_update(p) ==
  /\ pc[p] = "update"
  /\ LET id == req[p].input.translation_id
         result == Returning(id, req[p].updateData)
     IN
     /\ translations' = UpdateTranslations(id, req[p].updateData)
     /\ returned' = Return(p, req[p],
                      IF Cardinality(result) = 0 THEN NullResult
                      ELSE Ok(CHOOSE r \in result : TRUE))
  /\ pc' = [pc EXCEPT ![p] = "idle"]
  /\ req' = [req EXCEPT ![p] = NoRequest]
  /\ UNCHANGED <<videos, videoIdSeq, translationIdSeq, now, budget>>
  /\ UNCHANGED clientVars

Next ==
  \/ Tick
  \/ \E p \in Procs, input \in UploadInputs : uploadVideo(p, input)
  \/ \E p \in Procs, input \in CreateInputs : createTranslation_selectVideo(p, input)
  \/ \E p \in Procs : createTranslation_selectExisting(p)
  \/ \E p \in Procs : createTranslation_insert(p)
  \/ \E p \in Procs, input \in StatusInputs : updateTranslationProgress_build(p, input)
  \/ \E p \in Procs : updateTranslationProgress_update(p)

\* every request of every handler, from the empty database; the updates carry
\* at most the status
Spec == Init /\ [][Next]_vars

(* ------------------------------- queries ------------------------------- *)
\* mutant: ORDER BY asc(key)
OrderByAsc(rows, key) ==
  {s \in [1..Cardinality(rows) -> rows] :
     /\ \A i, j \in DOMAIN s : i # j => s[i] # s[j]
     /\ \A i, j \in DOMAIN s : i < j => key[s[i]] <= key[s[j]]}

\* .orderBy(desc(column)): the sequences the statement may deliver the rows
\* in, key[r] being the ordering column of row r; every row once, keys never
\* increasing, rows with equal keys in any order
OrderByDesc(rows, key) ==
  {s \in [1..Cardinality(rows) -> rows] :
     /\ \A i, j \in DOMAIN s : i # j => s[i] # s[j]
     /\ \A i, j \in DOMAIN s : i < j => key[s[i]] >= key[s[j]]}

created_at(translation) == translation.created_at

\* mutant: the select without its where clause
SelectAllTranslations(video_id) == translations

\* db.select().from(translationsTable).where(eq(translationsTable.video_id, id))
SelectTranslationsByVideo(video_id) ==
  {t \in translations : t.video_id = video_id}

\* ...translation, progress_percentage: translation.progress_percentage
SpreadTranslation(translation) ==
  [translation EXCEPT !.progress_percentage = translation.progress_percentage]

getTranslationsByVideoInputSchema(input) == input.video_id \in Int

\* the inputs of the queries by video id and by translation id
VideoIdInputs == [video_id : VideoIds]
TranslationIdInputs == [translation_id : TranslationIds]

\* one SELECT ... WHERE video_id ORDER BY created_at DESC, then the mapping
getTranslationsByVideo(p, input) ==
  /\ Free(p)
  /\ getTranslationsByVideoInputSchema(input)
  /\ input.video_id <= videoIdSeq + 1
  /\ \E results \in OrderByDesc(SelectTranslationsByVideo(input.video_id),
                                  [t \in translations |-> created_at(t)]) :
       returned' = Return(p, [op |-> "getTranslationsByVideo", input |-> input],
                          Ok([i \in DOMAIN results |-> SpreadTranslation(results[i])]))
  /\ UNCHANGED <<videos, translations, videoIdSeq, translationIdSeq, now, pc, req,
                 budget>>

\* .from(translationsTable).innerJoin(videosTable, eq(translationsTable.video_id, videosTable.id))
InnerJoin(ts, vs) ==
  {r \in {[translations |-> t, videos |-> v] : t \in ts, v \in vs} :
     r.translations.video_id = r.videos.id}

joined_created_at(result) == result.translations.created_at

\* the mapping of a joined row to TranslationWithVideo
TranslationWithVideo(result) ==
  [id |-> result.translations.id,
   video_id |-> result.translations.video_id,
   target_language |-> result.translations.target_language,
   status |-> result.translations.status,
   translated_audio_path |-> result.translations.translated_audio_path,
   transcript_original |-> result.translations.transcript_original,
   transcript_translated |-> result.translations.transcript_translated,
   progress_percentage |-> result.translations.progress_percentage,
   error_message |-> result.translations.error_message,
   started_at |-> result.translations.started_at,
   completed_at |-> result.translations.completed_at,
   created_at |-> result.translations.created_at,
   updated_at |-> result.translations.updated_at,
   video |-> [id |-> result.videos.id,
              filename |-> result.videos.filename,
              original_filename |-> result.videos.original_filename,
              file_path |-> result.videos.file_path,
              file_size |-> result.videos.file_size,
              duration |-> result.videos.duration,
              mime_type |-> result.videos.mime_type,
              original_language |-> result.videos.original_language,
              uploaded_at |-> result.videos.uploaded_at,
              updated_at |-> result.videos.updated_at]]

\* one SELECT ... INNER JOIN ... ORDER BY created_at DESC, then the mapping
getAllTranslations(p) ==
  /\ Free(p)
  /\ \E results \in OrderByDesc(InnerJoin(translations, videos),
                                  [r \in InnerJoin(translations, videos) |->
                                     joined_created_at(r)]) :
       returned' = Return(p, [op |-> "getAllTranslations"],
                          Ok([i \in DOMAIN results |-> TranslationWithVideo(results[i])]))
  /\ UNCHANGED <<videos, translations, videoIdSeq, translationIdSeq, now, pc, req,
                 budget>>
  /\ UNCHANGED clientVars

uploaded_at(video) == video.uploaded_at

\* one SELECT ... ORDER BY uploaded_at DESC
getVideos(p) ==
  /\ Free(p)
  /\ \E results \in OrderByDesc(videos, [v \in videos |-> uploaded_at(v)]) :
       returned' = Return(p, [op |-> "getVideos"], Ok(results))
  /\ UNCHANGED <<videos, translations, videoIdSeq, translationIdSeq, now, pc, req,
                 budget>>
  /\ UNCHANGED clientVars

getVideoByIdInputSchema(input) == input.video_id \in Int

\* one SELECT ... WHERE id; null when it is empty, otherwise results[0] as
\* {...video, duration: video.duration}
getVideoById(p, input) ==
  /\ Free(p)
  /\ getVideoByIdInputSchema(input)
  /\ input.video_id <= videoIdSeq + 1
  /\ LET request == [op |-> "getVideoById", input |-> input]
         results == SelectVideoById(input.video_id)
     IN
     IF Cardinality(results) = 0
       THEN returned' = Return(p, request, NullResult)
       ELSE \E video \in results :
              returned' = Return(p, request,
                                 Ok([video EXCEPT !.duration = video.duration]))
  /\ UNCHANGED <<videos, translations, videoIdSeq, translationIdSeq, now, pc, req,
                 budget>>
  /\ UNCHANGED clientVars

\* mutant: the select without its where clause
SelectJoinedNoWhere(translation_id) == InnerJoin(translations, videos)

\* ...innerJoin(...).where(eq(translationsTable.id, input.translation_id))
SelectJoinedById(translation_id) ==
  {r \in InnerJoin(translations, videos) : r.translations.id = translation_id}

getTranslationByIdInputSchema(input) == input.translation_id \in Int

\* one SELECT ... INNER JOIN ... WHERE id; null if no translation found,
\* otherwise results[0] mapped to TranslationWithVideo
getTranslationById(p, input) ==
  /\ Free(p)
  /\ getTranslationByIdInputSchema(input)
  /\ input.translation_id <= translationIdSeq + 1
  /\ LET request == [op |-> "getTranslationById", input |-> input]
         results == SelectJoinedById(input.translation_id)
     IN
     IF Cardinality(results) = 0
       THEN returned' = Return(p, request, NullResult)
       ELSE \E result \in results :
              returned' = Return(p, request, Ok(TranslationWithVideo(result)))
  /\ UNCHANGED <<videos, translations, videoIdSeq, translationIdSeq, now, pc, req,
                 budget>>
  /\ UNCHANGED clientVars

\* the database the handler's tests start from: after
\* uploadVideo(testVideoInput) and createTranslation of "es" for it
InitUpdate ==
  /\ videos = {NewVideoRow(1, testVideoInput, 0)}
  /\ translations =
       {NewTranslationRow(1, [video_id |-> 1, target_language |-> "es"], 0)}
  /\ videoIdSeq = 1
  /\ translationIdSeq = 1
  /\ now = 0
  /\ pc = [p \in Procs |-> "idle"]
  /\ req = [p \in Procs |-> NoRequest]
  /\ returned = NoResponse
  /\ budget = MaxUpdates
  /\ InitVideoList

\* every input for the ids issued so far, the status inputs for the next id
UpdateInputsFor(lastId) ==
  {i \in UpdateInputs : i.translation_id <= lastId}
    \cup {i \in StatusInputs : i.translation_id = lastId + 1}

NextUpdate ==
  \/ Tick
  \/ \E p \in Procs, input \in UpdateInputsFor(translationIdSeq) :
        updateTranslationProgress_build(p, input)
  \/ \E p \in Procs : updateTranslationProgress_update(p)
  \/ \E p \in Procs, input \in TranslationIdInputs : getTranslationById(p, input)

\* updateTranslationProgress and getTranslationById requests on a database
\* that holds one translation
SpecUpdate == InitUpdate /\ [][NextUpdate]_vars

NextQuery ==
  \/ Tick
  \/ \E p \in Procs, input \in UploadInputs : uploadVideo(p, input)
  \/ \E p \in Procs, input \in CreateInputs : createTranslation_selectVideo(p, input)
  \/ \E p \in Procs : createTranslation_selectExisting(p)
  \/ \E p \in Procs : createTranslation_insert(p)
  \/ \E p \in Procs, input \in VideoIdInputs :
        getTranslationsByVideo(p, input) /\ UNCHANGED clientVars
  \/ \E p \in Procs : getAllTranslations(p)

\* the translation list queries, on every database uploadVideo and
\* createTranslation requests build from the empty one
SpecQuery == Init /\ [][NextQuery]_vars

NextVideos ==
  \/ Tick
  \/ \E p \in Procs, input \in UploadInputs \cup {longVideoInput} :
        uploadVideo(p, input)
  \/ \E p \in Procs : getVideos(p)
  \/ \E p \in Procs, input \in VideoIdInputs : getVideoById(p, input)

\* the video handlers alone, from the empty database
SpecVideos == Init /\ [][NextVideos]_vars

\* the update inputs that provide nothing, the status only, or the fields of
\* the test 'should update multiple fields at once'
StatusOrTestInputs ==
  {i \in UpdateInputs : Provided(i) \subseteq {"status"} \/ Cardinality(Provided(i)) > 1}

NextAll ==
  \/ Tick
  \/ \E p \in Procs, input \in UploadInputs : uploadVideo(p, input)
  \/ \E p \in Procs, input \in CreateInputs : createTranslation_selectVideo(p, input)
  \/ \E p \in Procs : createTranslation_selectExisting(p)
  \/ \E p \in Procs : createTranslation_insert(p)
  \/ \E p \in Procs, input \in StatusOrTestInputs :
        updateTranslationProgress_build(p, input)
  \/ \E p \in Procs : updateTranslationProgress_update(p)
  \/ \E p \in Procs : getVideos(p)
  \/ \E p \in Procs, input \in VideoIdInputs : getVideoById(p, input)
  \/ \E p \in Procs, input \in VideoIdInputs :
        getTranslationsByVideo(p, input) /\ UNCHANGED clientVars
  \/ \E p \in Procs, input \in TranslationIdInputs : getTranslationById(p, input)
  \/ \E p \in Procs : getAllTranslations(p)

\* every procedure of the router, on a database that holds one video and one
\* translation
SpecAll == InitUpdate /\ [][NextAll]_vars

(* ------------------------- the end-to-end scenario --------------------- *)
\* the requests of the scenario, in order, for the video input A and the
\* completion time T
Scenario(A, T) ==
  << [op |-> "uploadVideo", input |-> A],
     [op |-> "createTranslation", input |-> [video_id |-> 1, target_language |-> "es"]],
     [op |-> "updateTranslationProgress",
      input |-> [translation_id |-> 1, status |-> "processing",
                 progress_percentage |-> 50]],
     [op |-> "updateTranslationProgress",
      input |-> [translation_id |-> 1, status |-> "completed",
                 progress_percentage |-> 100, completed_at |-> Some(T)]],
     [op |-> "createTranslation", input |-> [video_id |-> 1, target_language |-> "es"]] >>

ScenarioLength == Len(Scenario(testVideoInput, 0))

\* the valid video inputs and the completion times the scenario is run with
ScenarioVideos == {A \in UploadInputs : uploadVideoInputSchema(A)}
ScenarioTimes == 0..MaxTime

\* the requests the caller may issue next: it awaits every response before
\* the next request
ScenarioNext ==
  IF budget > 0 /\ \A p \in Procs : pc[p] = "idle"
    THEN {Scenario(A, T)[ScenarioLength - budget + 1] :
            A \in ScenarioVideos, T \in ScenarioTimes}
    ELSE {}

InitScenario ==
  /\ videos = {}
  /\ translations = {}
  /\ videoIdSeq = 0
  /\ translationIdSeq = 0
  /\ now = 0
  /\ pc = [p \in Procs |-> "idle"]
  /\ req = [p \in Procs |-> NoRequest]
  /\ returned = NoResponse
  /\ budget = ScenarioLength
  /\ InitVideoList

NextScenario ==
  \/ Tick
  \/ \E p \in Procs, r \in ScenarioNext :
        r.op = "uploadVideo" /\ uploadVideo(p, r.input)
  \/ \E p \in Procs, r \in ScenarioNext :
        r.op = "createTranslation" /\ createTranslation_selectVideo(p, r.input)
  \/ \E p \in Procs : createTranslation_selectExisting(p)
  \/ \E p \in Procs : createTranslation_insert(p)
  \/ \E p \in Procs, r \in ScenarioNext :
        r.op = "updateTranslationProgress"
          /\ updateTranslationProgress_build(p, r.input)
  \/ \E p \in Procs : updateTranslationProgress_update(p)

\* the scenario's requests, one after the other, from the empty database
SpecScenario == InitScenario /\ [][NextScenario]_vars

(* --------------------------- client: VideoList ------------------------- *)
\* the state of the server
serverVars == <<videos, translations, videoIdSeq, translationIdSeq,
                now, pc, req, returned, budget>>

\* the database the component is shown over: two registered videos, the
\* first with a translation to "es"
InitClient ==
  /\ videos = {NewVideoRow(1, testVideoInput, 0), NewVideoRow(2, testVideoInput, 0)}
  /\ translations =
       {NewTranslationRow(1, [video_id |-> 1, target_language |-> "es"], 0)}
  /\ videoIdSeq = 2
  /\ translationIdSeq = 1
  /\ now = 0
  /\ pc = [p \in Procs |-> "idle"]
  /\ req = [p \in Procs |-> NoRequest]
  /\ returned = NoResponse
  /\ budget = 0
  /\ InitVideoList

\* a call with its state changed
Settle(c, state, result) == (calls \ {c}) \cup {[c EXCEPT !.state = state, !.result = result]}

\* onClick={() => handleVideoSelect(video)}: the handler up to its await; the
\* query is sent
handleVideoSelect(video) ==
  /\ Cardinality(calls) < MaxCalls
  /\ selectedVideo' = Some(video)
  /\ targetLanguage' = ""
  /\ error' = Null
  /\ isLoadingTranslations' = TRUE
  /\ calls' = calls \cup {[id |-> Cardinality(calls) + 1, video_id |-> video.id,
                           state |-> "sent", result |-> <<>>]}
  /\ UNCHANGED videoTranslations
  /\ UNCHANGED serverVars

\* trpc.getTranslationsByVideo.query({ video_id: video.id }): the server
\* serves the call; its response is on the way to the client
trpc_getTranslationsByVideo_query(c) ==
  /\ c.state = "sent"
  /\ \E p \in Procs : getTranslationsByVideo(p, [video_id |-> c.video_id])
  /\ calls' = Settle(c, "resolved", returned'.value)
  /\ UNCHANGED <<selectedVideo, targetLanguage, videoTranslations,
                 isLoadingTranslations, error>>

\* the call fails (the server cannot be reached): the promise is rejected
trpc_getTranslationsByVideo_reject(c) ==
  /\ c.state = "sent"
  /\ calls' = Settle(c, "rejected", <<>>)
  /\ UNCHANGED <<selectedVideo, targetLanguage, videoTranslations,
                 isLoadingTranslations, error>>
  /\ UNCHANGED serverVars

\* the handler after its await: setVideoTranslations(translations), then the
\* finally block
handleVideoSelect_try(c) ==
  /\ c.state = "resolved"
  /\ videoTranslations' = c.result
  /\ isLoadingTranslations' = FALSE
  /\ calls' = Settle(c, "done", c.result)
  /\ UNCHANGED <<selectedVideo, targetLanguage, error>>
  /\ UNCHANGED serverVars

\* the catch block: setVideoTranslations([]), then the finally block
handleVideoSelect_catch(c) ==
  /\ c.state = "rejected"
  /\ videoTranslations' = <<>>
  /\ isLoadingTranslations' = FALSE
  /\ calls' = Settle(c, "done", <<>>)
  /\ UNCHANGED <<selectedVideo, targetLanguage, error>>
  /\ UNCHANGED serverVars

\* videoTranslations.map(t => t.target_language)
getUsedLanguages == [i \in DOMAIN videoTranslations |-> videoTranslations[i].target_language]

\* SUPPORTED_LANGUAGES.filter(lang => !getUsedLanguages().includes(lang.code))
SelectItems ==
  {lang \in SupportedLanguages :
     \A i \in DOMAIN getUsedLanguages : getUsedLanguages[i] # lang}

\* onValueChange of the language Select of the open dialog
setTargetLanguage(value) ==
  /\ selectedVideo # Null
  /\ value \in SelectItems
  /\ targetLanguage' = value
  /\ UNCHANGED <<selectedVideo, videoTranslations, isLoadingTranslations, error,
                 calls>>
  /\ UNCHANGED serverVars

NextClient ==
  \/ \E video \in videos : handleVideoSelect(video)
  \/ \E c \in calls : trpc_getTranslationsByVideo_query(c)
  \/ \E c \in calls : trpc_getTranslationsByVideo_reject(c)
  \/ \E c \in calls : handleVideoSelect_try(c)
  \/ \E c \in calls : handleVideoSelect_catch(c)
  \/ \E value \in TargetLanguages : setTargetLanguage(value)

\* the user selecting videos in the VideoList while the server answers the
\* calls of the earlier selections
SpecClient == InitClient /\ [][NextClient]_vars

(* ======================= properties of the handlers ===================== *)
\* steps of the handlers, recognised by the worker's position
InsertStep(p) == pc[p] = "insert" /\ pc'[p] = "idle"
SelectExistingStep(p) == pc[p] = "select_existing" /\ pc'[p] # "select_existing"
BuildStep(p) == pc[p] = "idle" /\ pc'[p] = "update"
UpdateStep(p) == pc[p] = "update" /\ pc'[p] = "idle"

\* the step just taken returned the result of a request of handler op
ReturnedFrom(r, op) == r.tag # "none" /\ r.request.op = op

SamePair(a, b) == a.video_id = b.video_id /\ a.target_language = b.target_language

\* C1: in every reachable state there is at most one Translation per
\* (video_id, target_language) pair.
C1_OneTranslationPerPair ==
  \A a \in translations, b \in translations : SamePair(a, b) => a.id = b.id

\* C2: when two identical createTranslation requests have both passed the
\* duplicate check, the later insert is rejected by the storage layer: an
\* insert for a pair that is already stored never returns a created
\* Translation.
C2_LaterInsertRejected ==
  [][\A p \in Procs :
       (InsertStep(p) /\ \E t \in translations : SamePair(t, req[p].input))
         => returned'.tag = "error"]_vars

\* C3: createTranslation(v, lang) whose duplicate check finds a Translation of
\* (v, lang), whatever its status, fails with the duplicate error naming lang
\* and v and inserts no row; when only Translations of other pairs exist the
\* check lets the request through, and its insert returns a Translation whose
\* id differs from every stored id.
C3_DuplicateRejected ==
  [][\A p \in Procs :
       /\ SelectExistingStep(p) =>
            IF \E t \in translations : SamePair(t, req[p].input)
              THEN /\ returned' = Return(p, req[p],
                                    DuplicateError(req[p].input.target_language,
                                                   req[p].input.video_id))
                   /\ translations' = translations
                   /\ pc'[p] = "idle"
              ELSE /\ pc'[p] = "insert"
                   /\ returned'.tag = "none"
       /\ (InsertStep(p) /\ ~ \E t \in translations : SamePair(t, req[p].input))
            => /\ returned'.tag = "ok"
               /\ SamePair(returned'.value, req[p].input)
               /\ \A t \in translations : t.id # returned'.value.id
               /\ returned'.value \in translations']_vars

\* C3 witness: a duplicate error was returned for a pair whose stored
\* Translation is no longer pending.
C3_Witness ==
  /\ ReturnedFrom(returned, "createTranslation")
  /\ returned.tag = "error"
  /\ returned.error = "Translation already exists for video"
  /\ \E t \in translations :
       SamePair(t, returned.request.input) /\ t.status = "completed"

\* C4: a createTranslation request whose video_id matches no Video never gets
\* past the video lookup: it returns the 'video not found' error naming the
\* id, for every target_language, and the Translations are unchanged.
C4_VideoNotFound ==
  /\ [](\A p \in Procs :
          pc[p] \in {"select_existing", "insert"} =>
            \E v \in videos : v.id = req[p].input.video_id)
  /\ [][(/\ ReturnedFrom(returned', "createTranslation")
         /\ ~ \E v \in videos : v.id = returned'.request.input.video_id)
          => /\ returned'.tag = "error"
             /\ returned'.error = "Video with ID not found"
             /\ returned'.video_id = returned'.request.input.video_id
             /\ translations' = translations]_vars

\* C4 witness: the 'video not found' error was returned while another Video
\* exists.
C4_Witness ==
  /\ ReturnedFrom(returned, "createTranslation")
  /\ returned.tag = "error"
  /\ returned.error = "Video with ID not found"
  /\ videos # {}

\* C5: a createTranslation that returns a Translation has inserted exactly
\* that one new row: the request's video_id and target_language, status
\* pending, progress 0, every milestone/result field null, created_at equal
\* to updated_at.
C5_CreatedRecord ==
  [][ReturnedFrom(returned', "createTranslation") /\ returned'.tag = "ok" =>
       LET r == returned'.value
           input == returned'.request.input
       IN /\ r \notin translations
          /\ \A t \in translations : t.id # r.id
          /\ translations' = translations \cup {r}
          /\ r.video_id = input.video_id
          /\ r.target_language = input.target_language
          /\ r.status = "pending"
          /\ r.progress_percentage = 0
          /\ r.translated_audio_path = Null
          /\ r.transcript_original = Null
          /\ r.transcript_translated = Null
          /\ r.error_message = Null
          /\ r.started_at = Null
          /\ r.completed_at = Null
          /\ r.created_at = r.updated_at
          /\ r.created_at = now]_vars

\* C5 witness: a second Translation was created, after the clock advanced.
C5_Witness ==
  /\ ReturnedFrom(returned, "createTranslation")
  /\ returned.tag = "ok"
  /\ returned.value.created_at > 0
  /\ Cardinality(translations) = 2

\* C6: in every reachable state every Translation's video_id is the id of an
\* existing Video.
C6_ReferentialIntegrity ==
  \A t \in translations : \E v \in videos : v.id = t.video_id

\* C6 witness: two Videos exist and a Translation of the second one has been
\* updated.
C6_Witness ==
  /\ Cardinality(videos) = 2
  /\ \E t \in translations : t.video_id = 2 /\ t.status # "pending"

\* C7: updateTranslationProgress with a translation_id that matches no
\* Translation returns null, not an error, and leaves every stored Translation
\* and Video unchanged.
C7_UpdateNotFound ==
  [][\A p \in Procs :
       (UpdateStep(p) /\ ~ \E t \in translations : t.id = req[p].input.translation_id)
         => /\ returned' = Return(p, req[p], NullResult)
            /\ translations' = translations
            /\ videos' = videos]_vars

\* C7 witness: null was returned to an update that provided a field.
C7_Witness ==
  /\ ReturnedFrom(returned, "updateTranslationProgress")
  /\ returned.tag = "null"
  /\ Provided(returned.request.input) # {}

\* C8: updateTranslationProgress on an existing Translation leaves every
\* optional field that the input omits identical to its stored value.
C8_OmittedFieldsKept ==
  [][\A p \in Procs : UpdateStep(p) =>
       \A t \in translations : t.id = req[p].input.translation_id =>
         \E u \in translations' :
           /\ u.id = t.id
           /\ \A f \in OptionalFields \ Provided(req[p].input) : u[f] = t[f]]_vars

\* C8 witness: an update that omitted transcript_original and status returned
\* a record that holds values for both from an earlier update.
C8_Witness ==
  /\ ReturnedFrom(returned, "updateTranslationProgress")
  /\ returned.tag = "ok"
  /\ {"transcript_original", "status"} \cap Provided(returned.request.input) = {}
  /\ Provided(returned.request.input) # {}
  /\ returned.value.transcript_original # Null
  /\ returned.value.status = "processing"

\* C9: updateTranslationProgress on an existing Translation stores the
\* provided value in each provided field, explicit null included, and returns
\* the record as stored after the write.
C9_ProvidedFieldsWritten ==
  [][\A p \in Procs : UpdateStep(p) =>
       \A t \in translations : t.id = req[p].input.translation_id =>
         /\ returned'.tag = "ok"
         /\ returned'.value \in translations'
         /\ returned'.value.id = t.id
         /\ \A f \in Provided(req[p].input) : returned'.value[f] = req[p].input[f]]_vars

\* C9 witness: an update carrying an explicit null for a field that holds a
\* value is about to execute.
C9_Witness ==
  \E p \in Procs :
    /\ pc[p] = "update"
    /\ \E t \in translations, f \in NullableFields \cap Provided(req[p].input) :
         /\ t.id = req[p].input.translation_id
         /\ req[p].input[f] = Null
         /\ t[f] # Null

\* C10 (as claimed): every update of an existing Translation stores the time
\* it read from the clock in updated_at, and that time is strictly greater
\* than the stored updated_at.
C10_StrictlyForward ==
  [][\A p \in Procs : UpdateStep(p) =>
       \A t \in translations : t.id = req[p].input.translation_id =>
         \E u \in translations' :
           /\ u.id = t.id
           /\ u.updated_at = req[p].updateData.updated_at
           /\ u.updated_at > t.updated_at]_vars

\* C10 (amended): every update of an existing Translation, also one that
\* provides no optional field, reads the clock when it builds its update and
\* stores that time in updated_at; the stored time is never later than the
\* clock.
C10_UpdatedAtRefreshed ==
  [][\A p \in Procs :
       /\ BuildStep(p) => req'[p].updateData.updated_at = now
       /\ UpdateStep(p) =>
            \A t \in translations : t.id = req[p].input.translation_id =>
              \E u \in translations' :
                /\ u.id = t.id
                /\ u.updated_at = req[p].updateData.updated_at
                /\ u.updated_at <= now]_vars

\* C10 witness: an update that provided no optional field moved updated_at
\* past created_at.
C10_Witness ==
  /\ ReturnedFrom(returned, "updateTranslationProgress")
  /\ returned.tag = "ok"
  /\ Provided(returned.request.input) = {}
  /\ returned.value.updated_at > returned.value.created_at

\* C11: no state-machine guard: an update that provides status s' on an
\* existing Translation succeeds whatever the current status s is, and the
\* stored and the returned record have status s', also out of completed and
\* failed back to pending.
C11_NoStatusGuard ==
  [][\A p \in Procs :
       (UpdateStep(p) /\ "status" \in Provided(req[p].input)) =>
         \A t \in translations : t.id = req[p].input.translation_id =>
           /\ returned'.tag = "ok"
           /\ returned'.value.status = req[p].input.status
           /\ \E u \in translations' :
                u.id = t.id /\ u.status = req[p].input.status]_vars

\* C11 witness: an update back to pending is about to execute on a Translation
\* in a terminal status.
C11_Witness ==
  \E p \in Procs :
    /\ pc[p] = "update"
    /\ "status" \in Provided(req[p].input)
    /\ req[p].input.status = "pending"
    /\ \E t \in translations :
         t.id = req[p].input.translation_id /\ t.status \in {"completed", "failed"}

\* C12: in every reachable state every Translation's progress_percentage is
\* an integer between 0 and 100 inclusive.
C12_ProgressInRange ==
  \A t \in translations : t.progress_percentage \in 0..100

\* C12 witness: an update carrying 101 was refused by the input schema while
\* the Translation it names holds the upper limit 100.
C12_Witness ==
  /\ ReturnedFrom(returned, "updateTranslationProgress")
  /\ returned = Return(returned.proc, returned.request, ValidationError)
  /\ returned.request.input.progress_percentage = 101
  /\ \E t \in translations :
       t.id = returned.request.input.translation_id /\ t.progress_percentage = 100

\* the elements of a sequence
Range(seq) == {seq[i] : i \in DOMAIN seq}

\* a query result is ordered by created_at, newest first
NewestFirst(seq) ==
  \A i, j \in DOMAIN seq : i < j => seq[i].created_at >= seq[j].created_at

\* C13: getTranslationsByVideo(video_id) returns, as a normal result, exactly
\* the Translations whose video_id is the argument, each once, ordered by
\* created_at descending; the list is empty when the video has no Translation
\* and when no Video has that id.
C13_TranslationsOfVideo ==
  [][ReturnedFrom(returned', "getTranslationsByVideo") =>
       LET id == returned'.request.input.video_id
           matching == {t \in translations : t.video_id = id}
       IN /\ returned'.tag = "ok"
          /\ Range(returned'.value) = matching
          /\ Len(returned'.value) = Cardinality(matching)
          /\ NewestFirst(returned'.value)
          /\ ((\A t \in translations : t.video_id # id) => returned'.value = <<>>)
          /\ translations' = translations]_vars

\* C13 witness: the query returned one Translation of the video while the
\* other video has a Translation too.
C13_Witness ==
  /\ ReturnedFrom(returned, "getTranslationsByVideo")
  /\ Len(returned.value) = 1
  /\ \E t \in translations : t.video_id # returned.request.input.video_id

\* the Translation a joined record carries
WithoutVideo(r) == [f \in DOMAIN r \ {"video"} |-> r[f]]

\* C14: getAllTranslations returns every stored Translation exactly once, each
\* with the full record of the Video whose id is its video_id, ordered by
\* created_at descending, equal timestamps included; with no Translation it
\* returns the empty list.
C14_AllTranslations ==
  [][ReturnedFrom(returned', "getAllTranslations") =>
       /\ returned'.tag = "ok"
       /\ {WithoutVideo(r) : r \in Range(returned'.value)} = translations
       /\ Len(returned'.value) = Cardinality(translations)
       /\ \A r \in Range(returned'.value) :
            r.video \in videos /\ r.video.id = r.video_id
       /\ NewestFirst(returned'.value)
       /\ (translations = {} => returned'.value = <<>>)]_vars

\* C14 witness: the list holds two Translations of different videos, the one
\* created later first.
C14_Witness ==
  /\ ReturnedFrom(returned, "getAllTranslations")
  /\ Len(returned.value) = 2
  /\ returned.value[1].created_at > returned.value[2].created_at
  /\ returned.value[1].video.id # returned.value[2].video.id

\* C15: getTranslationById(translation_id) returns null, not an error, when
\* no Translation has that id; otherwise it returns that Translation with all
\* its stored fields and the full record of its Video, whose id is the
\* Translation's video_id.
C15_TranslationById ==
  [][ReturnedFrom(returned', "getTranslationById") =>
       LET id == returned'.request.input.translation_id IN
       IF \A t \in translations : t.id # id
         THEN returned'.tag = "null"
         ELSE /\ returned'.tag = "ok"
              /\ returned'.value.id = id
              /\ WithoutVideo(returned'.value) \in translations
              /\ returned'.value.video \in videos
              /\ returned'.value.video.id = returned'.value.video_id]_vars

\* C15 witness: the query returned a Translation that an update had completed.
C15_Witness ==
  /\ ReturnedFrom(returned, "getTranslationById")
  /\ returned.tag = "ok"
  /\ returned.value.status = "completed"
  /\ returned.value.updated_at > returned.value.created_at

\* C16: getVideos returns every stored Video exactly once, ordered by
\* uploaded_at descending; with no Video it returns the empty list as a normal
\* result.
C16_AllVideos ==
  [][ReturnedFrom(returned', "getVideos") =>
       /\ returned'.tag = "ok"
       /\ Range(returned'.value) = videos
       /\ Len(returned'.value) = Cardinality(videos)
       /\ \A i, j \in DOMAIN returned'.value :
            i < j => returned'.value[i].uploaded_at >= returned'.value[j].uploaded_at
       /\ (videos = {} => returned'.value = <<>>)]_vars

\* C16 witness: the list holds two Videos, the one registered later first.
C16_Witness ==
  /\ ReturnedFrom(returned, "getVideos")
  /\ Len(returned.value) = 2
  /\ returned.value[1].uploaded_at > returned.value[2].uploaded_at
  /\ returned.value[1].id > returned.value[2].id

\* C17: getVideoById(id) returns the stored Video with that id when there is
\* one and null, not an error, otherwise; it changes neither table.
C17_VideoById ==
  [][ReturnedFrom(returned', "getVideoById") =>
       LET id == returned'.request.input.video_id IN
       /\ IF \A v \in videos : v.id # id
            THEN returned'.tag = "null"
            ELSE /\ returned'.tag = "ok"
                 /\ returned'.value \in videos
                 /\ returned'.value.id = id
       /\ videos' = videos
       /\ translations' = translations
       /\ videoIdSeq' = videoIdSeq
       /\ translationIdSeq' = translationIdSeq]_vars

\* C17 witness: null was returned for an id while two Videos with other ids
\* are stored.
C17_Witness ==
  /\ ReturnedFrom(returned, "getVideoById")
  /\ returned.tag = "null"
  /\ Cardinality(videos) = 2

\* the fields of a Video that come from the input
InputFields ==
  {"filename", "original_filename", "file_path", "file_size", "duration",
   "mime_type", "original_language"}

\* C18 (as claimed): after uploadVideo returns a Video for a valid input, the
\* record stored under the returned id, which is what getVideoById returns
\* for it, equals the input in filename, original_filename, file_path,
\* file_size, duration, mime_type and original_language.
C18_RegisterThenGet ==
  [][(ReturnedFrom(returned', "uploadVideo") /\ returned'.tag = "ok") =>
       \A video \in {v \in videos' : v.id = returned'.value.id} :
         \A f \in InputFields : video[f] = returned'.request.input[f]]_vars

\* C19: uploadVideo with file_size <= 0, with a non-null duration <= 0 or
\* with a non-null original_language outside the twelve supported languages
\* is rejected and nothing is persisted: the Videos and the id sequence are
\* unchanged.
C19_InvalidUploadRejected ==
  /\ [](Cardinality(SupportedLanguages) = 12)
  /\ [][ReturnedFrom(returned', "uploadVideo") =>
          LET input == returned'.request.input IN
          (\/ input.file_size <= 0
           \/ input.duration # Null /\ input.duration[1] <= 0
           \/ input.original_language # Null
                /\ input.original_language[1] \notin SupportedLanguages)
            => /\ returned'.tag = "error"
               /\ videos' = videos
               /\ videoIdSeq' = videoIdSeq]_vars

\* C19 witness: an input with an unsupported original_language was rejected
\* after a Video had been stored.
C19_Witness ==
  /\ ReturnedFrom(returned, "uploadVideo")
  /\ returned.tag = "error"
  /\ returned.request.input.original_language = Some("xx")
  /\ videos # {}

\* C20: in every reachable state no two Videos share an id and no two
\* Translations share an id, and every uploadVideo returns an id strictly
\* greater than the id of every Video stored before it.
C20_UniqueMonotonicIds ==
  /\ [](/\ \A a \in videos, b \in videos : a.id = b.id => a = b
        /\ \A a \in translations, b \in translations : a.id = b.id => a = b)
  /\ [][(ReturnedFrom(returned', "uploadVideo") /\ returned'.tag = "ok") =>
          /\ \A v \in videos : returned'.value.id > v.id
          /\ returned'.value \in videos']_vars

\* C20 witness: a second Video was registered while two Translations are
\* stored.
C20_Witness ==
  /\ ReturnedFrom(returned, "uploadVideo")
  /\ returned.tag = "ok"
  /\ returned.value.id = 2
  /\ Cardinality(translations) = 2

\* C21: records are never removed and Videos never change: every step keeps
\* every stored Video as it is, all fields identical, and keeps a Translation
\* for every stored Translation id.
C21_NothingRemoved ==
  [][/\ \A v \in videos : v \in videos'
     /\ \A t \in translations : \E u \in translations' : u.id = t.id]_vars

\* C21 witness: an update has just rewritten one of two stored Translations.
C21_Witness ==
  /\ ReturnedFrom(returned, "updateTranslationProgress")
  /\ returned.tag = "ok"
  /\ returned.value.status = "failed"
  /\ Cardinality(translations) = 2
  /\ videos # {}

\* C22: only updateTranslationProgress changes an existing Translation: a
\* step that changes a stored Translation is the UPDATE of a request that
\* names its id, so uploadVideo, createTranslation and the queries leave every
\* stored Translation as it is, pending with progress 0 until then.
C22_OnlyUpdateChanges ==
  [][/\ \A t \in translations :
          t \notin translations' =>
            \E p \in Procs : UpdateStep(p) /\ req[p].input.translation_id = t.id
     /\ (returned'.tag # "none" /\ returned'.request.op # "updateTranslationProgress")
          => translations \subseteq translations']_vars

\* C22 witness: a second Translation was created and the first is still
\* pending with progress 0.
C22_Witness ==
  /\ ReturnedFrom(returned, "createTranslation")
  /\ returned.tag = "ok"
  /\ \E t \in translations :
       /\ t.id # returned.value.id
       /\ t.status = "pending"
       /\ t.progress_percentage = 0
       /\ t.updated_at = t.created_at
       /\ t.created_at < returned.value.created_at

\* C23 (as claimed): in every reachable state a Translation's error_message
\* is non-null only when its status is failed.
C23_ErrorOnlyWhenFailed ==
  \A t \in translations : t.error_message # Null => t.status = "failed"

\* C24 (as claimed): in every reachable state a Translation's
\* translated_audio_path is non-null only when its status is completed.
C24_AudioOnlyWhenCompleted ==
  \A t \in translations : t.translated_audio_path # Null => t.status = "completed"

\* C25 (as claimed): whenever an update makes a Translation's status
\* processing its started_at is set; whenever it makes it completed its
\* completed_at and translated_audio_path are set and progress_percentage is
\* 100; whenever it makes it failed its error_message is set.
C25_StatusCarriesMilestones ==
  [][\A t \in translations, u \in translations' :
       (u.id = t.id /\ u.status # t.status) =>
         /\ u.status = "processing" => u.started_at # Null
         /\ u.status = "completed" =>
              /\ u.completed_at # Null
              /\ u.translated_audio_path # Null
              /\ u.progress_percentage = 100
         /\ u.status = "failed" => u.error_message # Null]_vars

\* C26: uploadVideo stores the new Video with uploaded_at and updated_at both
\* set to the instant of the insert, and uploaded_at = updated_at for every
\* Video in every reachable state.
C26_VideoTimestamps ==
  /\ [](\A v \in videos : v.uploaded_at = v.updated_at)
  /\ [][(ReturnedFrom(returned', "uploadVideo") /\ returned'.tag = "ok") =>
          /\ returned'.value.uploaded_at = now
          /\ returned'.value.updated_at = now
          /\ returned'.value \in videos']_vars

\* C26 witness: a Video was registered after the clock had advanced past the
\* registration of another one.
C26_Witness ==
  /\ ReturnedFrom(returned, "uploadVideo")
  /\ returned.tag = "ok"
  /\ returned.value.uploaded_at > 0
  /\ \E v \in videos : v.uploaded_at < returned.value.uploaded_at

\* the number of scenario requests issued so far
Issued == ScenarioLength - budget

\* the columns of a Translation
TranslationColumns ==
  {"id", "video_id", "target_language", "status", "progress_percentage",
   "translated_audio_path", "transcript_original", "transcript_translated",
   "error_message", "started_at", "completed_at", "created_at", "updated_at"}

\* C27: the scenario as one trace: uploadVideo(A) returns the Video; the
\* createTranslation(A, es) after it returns a Translation pending with
\* progress 0; the update {processing, 50} returns it processing with progress
\* 50 and every other field but updated_at as before; the update
\* {completed, 100, completed_at: T} returns it completed; the second
\* createTranslation(A, es) fails with the duplicate error.
C27_Scenario ==
  [][returned'.tag # "none" =>
       LET r == returned' IN
       /\ Issued' = 1 => r.request.op = "uploadVideo" /\ r.tag = "ok" /\ r.value.id = 1
       /\ Issued' = 2 =>
            /\ r.request.op = "createTranslation"
            /\ r.tag = "ok"
            /\ r.value.video_id = 1
            /\ r.value.target_language = "es"
            /\ r.value.status = "pending"
            /\ r.value.progress_percentage = 0
       /\ Issued' = 3 =>
            /\ r.request.op = "updateTranslationProgress"
            /\ r.tag = "ok"
            /\ r.value.status = "processing"
            /\ r.value.progress_percentage = 50
            /\ \E t \in translations :
                 \A c \in TranslationColumns \ {"status", "progress_percentage", "updated_at"} :
                   r.value[c] = t[c]
       /\ Issued' = 4 =>
            /\ r.request.op = "updateTranslationProgress"
            /\ r.tag = "ok"
            /\ r.value.status = "completed"
            /\ r.value.progress_percentage = 100
            /\ r.value.completed_at = r.request.input.completed_at
       /\ Issued' = 5 =>
            /\ r.request.op = "createTranslation"
            /\ r = Return(r.proc, r.request, DuplicateError("es", 1))
            /\ translations' = translations]_vars

\* C27 witness: the last request of the scenario got the duplicate error and
\* the Translation is completed.
C27_Witness ==
  /\ budget = 0
  /\ ReturnedFrom(returned, "createTranslation")
  /\ returned.tag = "error"
  /\ returned.error = "Translation already exists for video"
  /\ \E t \in translations :
       t.status = "completed" /\ t.progress_percentage = 100 /\ t.completed_at # Null

\* the columns no update may write
KeyColumns == {"id", "video_id", "target_language", "created_at"}

\* the key columns of every Translation
Keys(ts) == {[c \in KeyColumns |-> t[c]] : t \in ts}

\* C28: the UPDATE of updateTranslationProgress leaves id, video_id,
\* target_language and created_at of every Translation as they were, and
\* leaves every Translation whose id is not translation_id wholly as it was;
\* the (video_id, target_language) pairs and the Videos stay the same.
C28_UpdateFrame ==
  [][\A p \in Procs : UpdateStep(p) =>
       LET id == req[p].input.translation_id IN
       /\ \A t \in translations : t.id # id => t \in translations'
       /\ \A u \in translations' : u.id # id => u \in translations
       /\ Keys(translations') = Keys(translations)
       /\ Cardinality(translations') = Cardinality(translations)
       /\ videos' = videos]_vars

\* C28 witness: an update of one Translation has returned it while another
\* Translation, in a different status, exists.
C28_Witness ==
  /\ ReturnedFrom(returned, "updateTranslationProgress")
  /\ returned.tag = "ok"
  /\ returned.value \in translations
  /\ \E t \in translations :
       t.id # returned.value.id /\ t.status # returned.value.status

\* two workers have both issued their UPDATE of the same Translation
Concurrent(p, q) ==
  /\ p # q
  /\ pc[p] = "update"
  /\ pc[q] = "update"
  /\ req[p].input.translation_id = req[q].input.translation_id

\* the row after the UPDATE of p and then the UPDATE of q
InOrder(t, p, q) == SetColumns(SetColumns(t, req[p].updateData), req[q].updateData)

\* C29: of two updateTranslationProgress calls whose UPDATE statements on the
\* same Translation are both pending, the second to execute leaves the record
\* with its own values in the fields it provides, the first one's values in
\* the fields only the first provides, and the other fields as they were; with
\* disjoint field sets the two orders give the same record but for updated_at.
C29_ConcurrentUpdates ==
  /\ [](\A p \in Procs, q \in Procs :
          Concurrent(p, q) /\ Provided(req[p].input) \cap Provided(req[q].input) = {} =>
            \A t \in translations : t.id = req[p].input.translation_id =>
              \A c \in TranslationColumns \ {"updated_at"} :
                InOrder(t, p, q)[c] = InOrder(t, q, p)[c])
  /\ [][\A q \in Procs :
          /\ UpdateStep(q)
          /\ ReturnedFrom(returned, "updateTranslationProgress")
          /\ returned.tag = "ok"
          /\ returned.request.input.translation_id = req[q].input.translation_id
          => LET first == returned.request.input
                 second == req[q].input
                 final == returned'.value
             IN
             /\ returned'.tag = "ok"
             /\ final \in translations'
             /\ \A f \in Provided(second) : final[f] = second[f]
             /\ \A f \in Provided(first) \ Provided(second) : final[f] = first[f]
             /\ \A c \in TranslationColumns
                      \ (Provided(first) \cup Provided(second) \cup {"updated_at"}) :
                  final[c] = returned.value[c]
             /\ final.updated_at = req[q].updateData.updated_at]_vars

\* C29 witness: the UPDATE of one call has just executed while the UPDATE of
\* another call on the same Translation, providing other fields, is pending.
C29_Witness ==
  /\ ReturnedFrom(returned, "updateTranslationProgress")
  /\ returned.tag = "ok"
  /\ \E q \in Procs :
       /\ pc[q] = "update"
       /\ req[q].input.translation_id = returned.request.input.translation_id
       /\ Provided(req[q].input) # {}
       /\ Provided(returned.request.input) # {}
       /\ Provided(req[q].input) \cap Provided(returned.request.input) = {}

\* C30: whenever isLoadingTranslations is false and a video is selected,
\* videoTranslations is what a call for the selected video delivered: every
\* entry is a Translation of that video.
C30_TranslationsOfSelectedVideo ==
  (isLoadingTranslations = FALSE /\ selectedVideo # Null) =>
    /\ \A i \in DOMAIN videoTranslations :
         videoTranslations[i].video_id = selectedVideo[1].id
    /\ \E c \in calls :
         /\ c.state = "done"
         /\ c.video_id = selectedVideo[1].id
         /\ c.result = videoTranslations
====
